---- MODULE Spec2Model ----
(***************************************************************************)
(* Model of the query-assignment reconciliation loop of mealie-addons      *)
(* (query_assignment.go) together with the parts of the mealie client      *)
(* (mealie.go) it calls.                                                    *)
(*                                                                         *)
(* The background goroutine of launchAssignmentLoop is one process whose   *)
(* position is pc.  It is cut at its external calls: every action below is *)
(* one call to the recipe store together with all the local computation    *)
(* that follows it up to the next call.                                    *)
(*                                                                         *)
(* Two further sections model the client on its own: the page loop of      *)
(* getSlugs and getOrganisers, and getRecipes with its goroutines and the  *)
(* limiter channel shared by all download requests.                        *)
(***************************************************************************)
EXTENDS Integers, Sequences, FiniteSets, TLC

(***************************************************************************)
(* Bounds of the model.                                                    *)
(***************************************************************************)
\* number of recipes in the store
NumRecipes == 2
\* longest query list of an assignment in the query-rich configurations
MaxQueries == 2
\* longest slice handed to updateSlice in the pure specification
MaxLen == 2
\* longest repeat interval of the timed configurations, in time units
MaxRepeat == 2
\* longest time one store call takes in the timed specification
MaxLatency == 1

\* most pages the listed collection of the store has
MaxPages == 11
\* most changes of the number of pages while one listing is under way
MaxResizes == 1
\* most slugs the search of one download request matches
MaxSlugs == 2
\* largest MA_RETRIEVAL_LIMIT
MaxLimit == 2
\* the guess getSlugs and getOrganisers start with: lastPage := 10
InitialLastPage == 10

Recipes == 1..NumRecipes

\* Names of the organisers the configuration and the store talk about.
CatNames == {"Made", "NotMade"}
TagNames == {"Yummy"}

\* query.Mode is a free string of the configuration: the two modes that
\* search, the documented "skip", and one value that is none of them.
Modes == {"add", "remove", "skip", "bogus"}

\* query.Params: the filter "all" matches every recipe, a category name
\* matches the recipes that carry that category in the store.
Filters == {"all", "Made"}

(***************************************************************************)
(* Sequence helpers.                                                       *)
(***************************************************************************)
Range(s) == {s[i] : i \in DOMAIN s}

SeqsUpTo(S, n) == UNION {[1..k -> S] : k \in 0..n}

\* all the orders in which the elements of a finite set can be listed once
Orderings(S) ==
    {s \in [1..Cardinality(S) -> S] : Range(s) = S}

(***************************************************************************)
(* organiser (mealie.go): a category or a tag.  ID, Name and Slug are      *)
(* decoded from the store's JSON; kind is unexported, so the decoder never *)
(* sets it: it is "" unless getOrganisers fills it in.  The store keys     *)
(* its organisers by name: id and slug are functions of the name.          *)
(***************************************************************************)
IdOf(name) ==
    CASE name = "Made" -> 1
      [] name = "NotMade" -> 2
      [] name = "Yummy" -> 3
      [] OTHER -> 0

organiser(name, kind) ==
    [ID |-> IdOf(name), Name |-> name, Slug |-> name, kind |-> kind]

\* what json.Unmarshal makes of the store's organiser called name
decodeOrganiser(name) == organiser(name, "")

NamesOf(terms) == {t.Name : t \in terms}

\* an update that returns the additions without the removals
updateSliceReplace(original, add, remove) ==
    [slice |-> Range(add) \ Range(remove), changed |-> TRUE]

(***************************************************************************)
(* updateSlice: the slices go through a Go map keyed by the whole value;   *)
(* the changed flag is derived from the map's size before and after the    *)
(* additions, and before and after the removals.  The result lists the     *)
(* map's keys in the map's iteration order, which Go leaves unspecified:   *)
(* it is modelled as the set of its elements.                              *)
(***************************************************************************)
updateSlice(original, add, remove) ==
    LET asMap0 == Range(original)
        length0 == Cardinality(asMap0)
        asMap1 == asMap0 \cup Range(add)
        wasChanged1 == length0 # Cardinality(asMap1)
        length1 == Cardinality(asMap1)
        asMap2 == asMap1 \ Range(remove)
        wasChanged2 == wasChanged1 \/ length1 # Cardinality(asMap2)
    IN  [slice |-> asMap2, changed |-> wasChanged2]

\* indexedSlice: the values of myMap at the indices that are keys of it,
\* in the order of indices.  myMap is a function on its key set.
RECURSIVE indexedSlice(_, _)
indexedSlice(myMap, indices) ==
    IF indices = <<>> THEN <<>>
    ELSE LET index == Head(indices)
             rest == indexedSlice(myMap, Tail(indices))
         IN  IF index \in DOMAIN myMap THEN <<myMap[index]>> \o rest ELSE rest


(***************************************************************************)
(* State.                                                                  *)
(***************************************************************************)
VARIABLES
    assignments,           \* the configuration: queryAssignments.Assignments
    storeCategories,       \* store: names of the categories it knows
    storeTags,             \* store: names of the tags it knows
    recipeCategories,      \* store: recipe -> names of its categories
    recipeTags,            \* store: recipe -> names of its tags
    pc,                    \* position of the background goroutine
    ctx,                   \* the goroutine's ctx variable: state of its deadline
    skipAll,
    categories,            \* names of categoriesRaw, in order
    categoriesMap,         \* name -> organiser
    tags,
    tagsMap,
    assignmentIdx,         \* index (from 1) of the assignment being processed
    queryIdx,              \* index (from 1) of the query being evaluated
    recipeSlugsRetention,  \* map[slug]bool
    recipeSlugs,           \* the slugs kept by the retention map
    remaining,             \* the part of recipeSlugs the range loop has not reached
    recipe,                \* the fetched and updated recipe awaiting its write
    ran,                   \* history: assignments validated in this cycle
    calls,                 \* history: store calls of the current assignment pass
    failedFetches,         \* history: organiser fetches of this cycle that failed
    upd,                   \* state of the pure updateSlice specification
    host,                  \* position of the caller of launchAssignmentLoop
    quit,                  \* the handle launchAssignmentLoop returned
    repeatTime,            \* the configuration: RepeatSecs, in time units
    latency,               \* environment: the longest a store call takes
    elapsed,               \* time since startTime; -1 before the first cycle
    nextWaitTime,
    waited,                \* time spent at the select since the timer was armed
    running,               \* history: cycles begun and not yet finished
    fetches,               \* history: organiser fetches issued in this cycle
    watch,                 \* the assignment and recipe an observer follows
    failed,                \* history: a watched fetch or write of this cycle failed
    prev,                  \* history: what the observer saw of the previous cycle
    paging,                \* the locals of one call of getSlugs or getOrganisers
    storePages,            \* store: pages the listed collection has now
    resizes,               \* history: changes of storePages during the call
    limiter,               \* mealie.limiter: its capacity and the values it holds
    requests,              \* the calls of getRecipes being served
    workers                \* the goroutines getRecipes has started

vars == <<assignments, storeCategories, storeTags, recipeCategories, recipeTags,
          pc, ctx, skipAll, categories, categoriesMap, tags, tagsMap,
          assignmentIdx, queryIdx, recipeSlugsRetention, recipeSlugs, remaining,
          recipe, ran, calls, failedFetches, upd, host, quit, repeatTime,
          latency, elapsed, nextWaitTime, waited, running, fetches, watch,
          failed, prev, paging, storePages, resizes, limiter, requests, workers>>

store == <<storeCategories, storeTags, recipeCategories, recipeTags>>
taxonomy == <<categories, categoriesMap, tags, tagsMap>>
\* one paginated listing on its own
pagerVars == <<paging, storePages, resizes>>
\* the recipe retrieval of the download requests
retrievalVars == <<limiter, requests, workers>>
\* what stands apart from the loop: the state of the specifications of
\* single functions
apart == <<upd, pagerVars, retrievalVars>>
\* the caller's side and the configuration of the timing
caller == <<host, quit, repeatTime, latency>>
\* the timer bookkeeping of the goroutine
timing == <<elapsed, nextWaitTime, waited>>

\* the empty Go map
EmptyMap == [x \in {} |-> TRUE]

NoRecipe == [Slug |-> 0, Categories |-> {}, Tags |-> {}]

\* What the store and the network do to one request: answer, fail, or take
\* longer than the deadline of the context the request runs under.
Outcomes == {"ok", "err", "slow"}

\* A request under context state c succeeds when the context has not ended
\* and the store answers in time.
callSucceeds(c, outcome) == c = "live" /\ outcome = "ok"

\* The context after a request: a deadline that passed stays passed.
ctxAfterCall(c, outcome) ==
    IF c = "live" /\ outcome = "slow" THEN "expired" ELSE c

\* context.WithTimeout(background, timeout): a deadline of its own
WithTimeout == "live"

\* one entry of the call history
Call(op, k, c, outcome, matched, changed, differs) ==
    [op |-> op, k |-> k, live |-> c = "live", healthy |-> outcome = "ok",
     ok |-> callSucceeds(c, outcome), matched |-> matched, changed |-> changed,
     differs |-> differs]

Max(a, b) == IF a >= b THEN a ELSE b

\* a wait that ignores the time the cycle took
nextWaitTimeNoDrift(repeat, timePassed) == repeat

\* a wait that is the plain difference, below zero after a long cycle
nextWaitTimeNoFloor(repeat, timePassed) == repeat - timePassed

\* nextWaitTime = max(repeatTime-timePassed, 0)
nextWaitTimeOf(repeat, timePassed) == Max(repeat - timePassed, 0)

\* the longest cycle the timed specification follows: one time unit more
\* than the longest repeat interval
MaxElapsed == MaxRepeat + 1

\* the times one store call can take, the cycle lasting MaxElapsed at most
Durations == {d \in 0..latency : elapsed + d <= MaxElapsed}

\* nothing is followed across cycles
NoWatch == [a |-> 0, r |-> 0]

\* whether a fetch or write for the watched recipe under the watched
\* assignment has failed in this cycle, after the call for slug ended
failedAfter(succeeded, slug) ==
    failed \/ (~succeeded /\ watch = [a |-> assignmentIdx, r |-> slug])

NoFetches == [categories |-> 0, tags |-> 0]

NoPrev == [seen |-> FALSE, skipped |-> FALSE, failed |-> FALSE]

(***************************************************************************)
(* The store's side of the client calls.                                   *)
(***************************************************************************)
\* getSlugs: the slugs of the recipes the filter of the query matches
Matches(params) ==
    {r \in Recipes : params = "all" \/ params \in recipeCategories[r]}

\* the order in which the store lists a set of names
Listed(names) == CHOOSE s \in Orderings(names) : TRUE

\* getOrganisers: every organiser of the kind, its kind filled in
getOrganisers(names, kind) ==
    [i \in 1..Cardinality(names) |-> organiser(Listed(names)[i], kind)]

\* getRecipe: the recipe as decoded from the store's JSON
getRecipe(slug) ==
    [Slug |-> slug,
     Categories |-> [i \in 1..Cardinality(recipeCategories[slug]) |->
                        decodeOrganiser(Listed(recipeCategories[slug])[i])],
     Tags |-> [i \in 1..Cardinality(recipeTags[slug]) |->
                        decodeOrganiser(Listed(recipeTags[slug])[i])]]


(***************************************************************************)
(* Local computations of the loop body.                                    *)
(***************************************************************************)
\* name -> organiser index of a fetched organiser list
organiserMap(raw) ==
    [n \in {raw[i].Name : i \in DOMAIN raw} |->
        (CHOOSE o \in Range(raw) : o.Name = n)]

organiserNames(raw) == [i \in DOMAIN raw |-> raw[i].Name]

\* a validation that leaves out the loop over tags.unset
skipThisWithoutTagsUnset(assignment, knownCategories, knownTags) ==
    \/ \E i \in DOMAIN assignment.categories.set :
          assignment.categories.set[i] \notin Range(knownCategories)
    \/ \E i \in DOMAIN assignment.categories.unset :
          assignment.categories.unset[i] \notin Range(knownCategories)
    \/ \E i \in DOMAIN assignment.tags.set :
          assignment.tags.set[i] \notin Range(knownTags)

\* a validation against what the store knows at the time of the validation
skipThisAgainstStore(assignment, knownCategories, knownTags) ==
    \/ \E i \in DOMAIN assignment.categories.set :
          assignment.categories.set[i] \notin storeCategories
    \/ \E i \in DOMAIN assignment.categories.unset :
          assignment.categories.unset[i] \notin storeCategories
    \/ \E i \in DOMAIN assignment.tags.set :
          assignment.tags.set[i] \notin storeTags
    \/ \E i \in DOMAIN assignment.tags.unset :
          assignment.tags.unset[i] \notin storeTags

\* The validation of one assignment: skipThis is set when a name of one of
\* the four lists is not among the fetched names.
skipThisOf(assignment, knownCategories, knownTags) ==
    \/ \E i \in DOMAIN assignment.categories.set :
          assignment.categories.set[i] \notin Range(knownCategories)
    \/ \E i \in DOMAIN assignment.categories.unset :
          assignment.categories.unset[i] \notin Range(knownCategories)
    \/ \E i \in DOMAIN assignment.tags.set :
          assignment.tags.set[i] \notin Range(knownTags)
    \/ \E i \in DOMAIN assignment.tags.unset :
          assignment.tags.unset[i] \notin Range(knownTags)

\* a retention map in which the first query to match a slug decides
applyMatchesKeepFirst(retention, querySlugs, mode) ==
    [s \in (DOMAIN retention) \cup querySlugs |->
        IF s \in DOMAIN retention THEN retention[s] ELSE mode = "add"]

\* The retention map after the slugs of one query were entered in it:
\* true under mode add, false under mode remove, earlier entries overwritten.
applyMatches(retention, querySlugs, mode) ==
    [s \in (DOMAIN retention) \cup querySlugs |->
        IF s \in querySlugs THEN mode = "add" ELSE retention[s]]

\* The retention map after a query whose search ended as given.
retentionAfter(retention, succeeded, querySlugs, mode) ==
    IF succeeded THEN applyMatches(retention, querySlugs, mode) ELSE retention

\* recipeSlugs: the slugs the retention map keeps
keptSlugs(retention) == {s \in DOMAIN retention : retention[s]}

\* a recipe loop that a failed fetch ends (break)
remainingAfterFetchErrorBreak(rest, slug) == {}

\* The slugs still to be processed after the fetch of slug failed (continue).
remainingAfterFetchError(rest, slug) == rest \ {slug}

\* The slugs still to be processed after the write for slug ended, well or not.
remainingAfterWrite(rest, slug, succeeded) == rest \ {slug}

\* a skipAll that the tag fetch overwrites
skipAllTagsOnly(skipAllSoFar, tagsFailed) == tagsFailed

\* skipAll after the tag fetch: set by either failure
skipAllAfterTags(skipAllSoFar, tagsFailed) == skipAllSoFar \/ tagsFailed

\* The categories and tags of a fetched recipe after the update step of
\* assignment a, with the two changed flags.
updatedRecipe(fetched, a, catsMap, tgsMap) ==
    LET cats == updateSlice(fetched.Categories,
                            indexedSlice(catsMap, a.categories.set),
                            indexedSlice(catsMap, a.categories.unset))
        tgs  == updateSlice(fetched.Tags,
                            indexedSlice(tgsMap, a.tags.set),
                            indexedSlice(tgsMap, a.tags.unset))
    IN  [Slug |-> fetched.Slug, Categories |-> cats.slice, Tags |-> tgs.slice,
         categoriesChanged |-> cats.changed, tagsChanged |-> tgs.changed]


(***************************************************************************)
(* The loop of launchAssignmentLoop.                                       *)
(***************************************************************************)
loopLocals == <<skipAll, categories, categoriesMap, tags, tagsMap, assignmentIdx,
                queryIdx, recipeSlugsRetention, recipeSlugs, remaining, recipe>>

\* what an observer keeps beyond the current cycle
observed == <<watch, failed, prev>>

\* where the goroutine stands when the pass of assignment idx has ended
passEndPc(idx) == IF idx = Len(assignments) THEN "endCycle" ELSE "assignment"

\* a recipe loop that hands over to the next assignment after one recipe
recipeLoopPcEarly(rest) == passEndPc(assignmentIdx)

\* where it stands after the body of the recipe loop, rest being unprocessed
recipeLoopPc(rest) == IF rest = {} THEN passEndPc(assignmentIdx) ELSE "getRecipe"

\* a launch that starts the goroutine whatever the configuration holds
LaunchAlways ==
    /\ host = "init"
    /\ host' = "started"
    /\ quit' = "chan"
    /\ pc' = "wait"
    /\ nextWaitTime' = 0
    /\ UNCHANGED <<assignments, store, ctx, loopLocals, ran, calls, failedFetches,
                   apart, repeatTime, latency, elapsed, waited, running, fetches,
                   observed>>

\* launchAssignmentLoop, called by the host: without assignments it returns
\* a nil channel and starts nothing, otherwise it makes the quit channel and
\* starts the goroutine with a wait time of zero.
Launch ==
    /\ host = "init"
    /\ host' = "started"
    /\ quit' = IF Len(assignments) = 0 THEN "nil" ELSE "chan"
    /\ pc' = IF Len(assignments) = 0 THEN "absent" ELSE "wait"
    /\ nextWaitTime' = 0
    /\ UNCHANGED <<assignments, store, ctx, loopLocals, ran, calls, failedFetches,
                   apart, repeatTime, latency, elapsed, waited, running, fetches,
                   observed>>

\* The host begins its send on the handle: it blocks until a receiver takes
\* the value.
HostSend ==
    /\ host = "started"
    /\ host' = "sending"
    /\ UNCHANGED <<assignments, store, pc, ctx, loopLocals, ran, calls,
                   failedFetches, apart, quit, repeatTime, latency, timing,
                   running, fetches, observed>>

\* Time passes while the goroutine is at the select and its timer is armed.
Tick ==
    /\ pc = "wait"
    /\ waited < nextWaitTime
    /\ waited' = waited + 1
    /\ UNCHANGED <<assignments, store, pc, ctx, loopLocals, ran, calls,
                   failedFetches, apart, caller, elapsed, nextWaitTime, running,
                   fetches, observed>>

\* a timer case that is taken wherever the goroutine stands
TimerFiresAnywhere ==
    /\ pc \notin {"unstarted", "absent", "stopped"}
    /\ running < 2
    /\ pc' = "getCategories"
    /\ skipAll' = FALSE
    /\ ctx' = WithTimeout
    /\ ran' = {}
    /\ calls' = {}
    /\ failedFetches' = {}
    /\ elapsed' = 0
    /\ running' = running + 1
    /\ fetches' = NoFetches
    /\ UNCHANGED <<assignments, store, categories, categoriesMap, tags, tagsMap,
                   assignmentIdx, queryIdx, recipeSlugsRetention, recipeSlugs,
                   remaining, recipe, apart, caller, nextWaitTime, waited,
                   observed>>

\* select: the timer case, ready once nextWaitTime has passed.  The cycle
\* starts: startTime is taken and the context of the category fetch is
\* created.
TimerFires ==
    /\ pc = "wait"
    /\ waited >= nextWaitTime
    /\ pc' = "getCategories"
    /\ skipAll' = FALSE
    /\ ctx' = WithTimeout
    /\ ran' = {}
    /\ calls' = {}
    /\ failedFetches' = {}
    /\ elapsed' = 0
    /\ running' = running + 1
    /\ fetches' = NoFetches
    /\ UNCHANGED <<assignments, store, categories, categoriesMap, tags, tagsMap,
                   assignmentIdx, queryIdx, recipeSlugsRetention, recipeSlugs,
                   remaining, recipe, apart, caller, nextWaitTime, waited,
                   observed>>

\* a quit case that is taken wherever the goroutine stands
QuitAnywhere ==
    /\ pc \notin {"unstarted", "absent", "stopped"}
    /\ host = "sending"
    /\ quit = "chan"
    /\ pc' = "stopped"
    /\ host' = "done"
    /\ UNCHANGED <<assignments, store, ctx, loopLocals, ran, calls,
                   failedFetches, apart, quit, repeatTime, latency, timing,
                   running, fetches, observed>>

\* select: the quit case.  The channel is unbuffered: the receive and the
\* host's send complete together, and the goroutine returns.
Quit ==
    /\ pc = "wait"
    /\ host = "sending"
    /\ quit = "chan"
    /\ pc' = "stopped"
    /\ host' = "done"
    /\ UNCHANGED <<assignments, store, ctx, loopLocals, ran, calls,
                   failedFetches, apart, quit, repeatTime, latency, timing,
                   running, fetches, observed>>

\* The category fetch, the conversion of its result, and the creation of
\* the context of the tag fetch.
GetCategories ==
    \E outcome \in Outcomes, d \in Durations :
        /\ pc = "getCategories"
        /\ LET succeeded == callSucceeds(ctx, outcome)
               categoriesRaw == IF succeeded
                                THEN getOrganisers(storeCategories, "categories")
                                ELSE <<>>
           IN  /\ skipAll' = IF succeeded THEN skipAll ELSE TRUE
               /\ categories' = organiserNames(categoriesRaw)
               /\ categoriesMap' = organiserMap(categoriesRaw)
               /\ failedFetches' = IF succeeded THEN failedFetches
                                   ELSE failedFetches \cup {"categories"}
        /\ ctx' = WithTimeout
        /\ pc' = "getTags"
        /\ elapsed' = elapsed + d
        /\ fetches' = [fetches EXCEPT !.categories = @ + 1]
        /\ UNCHANGED <<assignments, store, tags, tagsMap, assignmentIdx, queryIdx,
                       recipeSlugsRetention, recipeSlugs, remaining, recipe, ran,
                       calls, apart, caller, nextWaitTime, waited, running,
                       observed>>

\* a loop that a failed organiser fetch ends
afterTagsPcFatal(skip) == IF skip THEN "stopped" ELSE "assignment"

\* if !skipAll: the assignments are processed, or the cycle ends at once
afterTagsPc(skip) == IF skip THEN "endCycle" ELSE "assignment"

\* The tag fetch, the conversion of its result, and the test of skipAll.
GetTags ==
    \E outcome \in Outcomes, d \in Durations :
        /\ pc = "getTags"
        /\ LET succeeded == callSucceeds(ctx, outcome)
               tagsRaw == IF succeeded THEN getOrganisers(storeTags, "tags")
                          ELSE <<>>
               skip == skipAllAfterTags(skipAll, ~succeeded)
           IN  /\ skipAll' = skip
               /\ tags' = organiserNames(tagsRaw)
               /\ tagsMap' = organiserMap(tagsRaw)
               /\ failedFetches' = IF succeeded THEN failedFetches
                                   ELSE failedFetches \cup {"tags"}
               /\ pc' = afterTagsPc(skip)
        /\ ctx' = "cancelled"
        /\ assignmentIdx' = 0
        /\ elapsed' = elapsed + d
        /\ fetches' = [fetches EXCEPT !.tags = @ + 1]
        /\ UNCHANGED <<assignments, store, categories, categoriesMap, queryIdx,
                       recipeSlugsRetention, recipeSlugs, remaining, recipe, ran,
                       calls, apart, caller, nextWaitTime, waited, running,
                       observed>>

\* The head of the assignment loop: the next assignment is validated; when
\* it is not skipped its retention map and the context of its queries are
\* created.
Validate ==
    /\ pc = "assignment"
    /\ assignmentIdx < Len(assignments)
    /\ LET idx == assignmentIdx + 1
           assignment == assignments[idx]
           skipThis == skipThisOf(assignment, categories, tags)
           noQueries == Len(assignment.queries) = 0
       IN  /\ assignmentIdx' = idx
           /\ ran' = IF skipThis THEN ran ELSE ran \cup {idx}
           /\ ctx' = IF skipThis THEN ctx
                     ELSE IF noQueries THEN "cancelled" ELSE WithTimeout
           /\ queryIdx' = IF skipThis \/ noQueries THEN 0 ELSE 1
           /\ pc' = IF skipThis \/ noQueries THEN passEndPc(idx) ELSE "query"
    /\ calls' = {}
    /\ recipeSlugsRetention' = EmptyMap
    /\ recipeSlugs' = {}
    /\ remaining' = {}
    /\ UNCHANGED <<assignments, store, skipAll, taxonomy, recipe,
                   failedFetches, apart, caller, timing, running, fetches,
                   observed>>

\* What follows the switch on the mode of query queryIdx: the next query,
\* or, after the last one, cancel() and the collection of the kept slugs.
AfterQuery(retention, ctxNow) ==
    LET last == queryIdx = Len(assignments[assignmentIdx].queries)
        kept == keptSlugs(retention)
    IN  /\ recipeSlugsRetention' = retention
        /\ queryIdx' = IF last THEN queryIdx ELSE queryIdx + 1
        /\ ctx' = IF last THEN "cancelled" ELSE ctxNow
        /\ recipeSlugs' = IF last THEN kept ELSE recipeSlugs
        /\ remaining' = IF last THEN kept ELSE remaining
        /\ pc' = IF last THEN recipeLoopPc(kept) ELSE "query"

\* A query of mode add or remove: the search runs under the context of the
\* assignment's queries.
QuerySearch ==
    \E outcome \in Outcomes, d \in Durations :
        /\ pc = "query"
        /\ LET query == assignments[assignmentIdx].queries[queryIdx]
               succeeded == callSucceeds(ctx, outcome)
               querySlugs == Matches(query.params)
           IN  /\ query.mode \in {"add", "remove"}
               /\ calls' = calls \cup
                    {Call("getSlugs", queryIdx, ctx, outcome, querySlugs, FALSE,
                          FALSE)}
               /\ AfterQuery(retentionAfter(recipeSlugsRetention, succeeded,
                                            querySlugs, query.mode),
                             ctxAfterCall(ctx, outcome))
        /\ elapsed' = elapsed + d
        /\ UNCHANGED <<assignments, store, skipAll, taxonomy, assignmentIdx,
                       recipe, ran, failedFetches, apart, caller, nextWaitTime,
                       waited, running, fetches, observed>>

\* a skipped query that empties the retention map
QuerySkipDrops ==
    /\ pc = "query"
    /\ assignments[assignmentIdx].queries[queryIdx].mode \notin {"add", "remove"}
    /\ AfterQuery(EmptyMap, ctx)
    /\ UNCHANGED <<assignments, store, skipAll, taxonomy, assignmentIdx,
                   recipe, ran, calls, failedFetches, apart, caller, timing,
                   running, fetches, observed>>

\* A query of mode skip or of an unknown mode: no search.
QuerySkip ==
    /\ pc = "query"
    /\ assignments[assignmentIdx].queries[queryIdx].mode \notin {"add", "remove"}
    /\ AfterQuery(recipeSlugsRetention, ctx)
    /\ UNCHANGED <<assignments, store, skipAll, taxonomy, assignmentIdx,
                   recipe, ran, calls, failedFetches, apart, caller, timing,
                   running, fetches, observed>>

\* whether two sets of organisers name different things
namesDiffer(before, after) == NamesOf(before) # NamesOf(after)

\* The body of the recipe loop up to the write: the fetch of one kept slug
\* under a context of its own, and the update of its categories and tags.
\* The slugs are taken in the iteration order of the retention map, which
\* Go leaves unspecified.
GetRecipe ==
    \E slug \in remaining, outcome \in Outcomes, d \in Durations :
        /\ pc = "getRecipe"
        /\ LET succeeded == callSucceeds(WithTimeout, outcome)
               fetched == getRecipe(slug)
               new == updatedRecipe(fetched, assignments[assignmentIdx],
                                    categoriesMap, tagsMap)
               changed == succeeded /\ (new.categoriesChanged \/ new.tagsChanged)
               differs ==
                   /\ succeeded
                   /\ \/ namesDiffer(Range(fetched.Categories), new.Categories)
                      \/ namesDiffer(Range(fetched.Tags), new.Tags)
               rest == IF ~succeeded THEN remainingAfterFetchError(remaining, slug)
                       ELSE IF changed THEN remaining
                       ELSE remaining \ {slug}
           IN  /\ calls' = calls \cup
                    {Call("getRecipe", slug, WithTimeout, outcome, {}, changed,
                          differs)}
               /\ failed' = failedAfter(succeeded, slug)
               /\ remaining' = rest
               /\ recipe' = IF changed
                            THEN [Slug |-> slug, Categories |-> new.Categories,
                                  Tags |-> new.Tags]
                            ELSE NoRecipe
               /\ pc' = IF changed THEN "setOrganisers" ELSE recipeLoopPc(rest)
        /\ ctx' = "cancelled"
        /\ elapsed' = elapsed + d
        /\ UNCHANGED <<assignments, store, skipAll, taxonomy, assignmentIdx,
                       queryIdx, recipeSlugsRetention, recipeSlugs, ran,
                       failedFetches, apart, caller, nextWaitTime, waited, running,
                       fetches, watch, prev>>

\* The write of the changed recipe under a context of its own.  The store
\* keys organisers by name: a successful write leaves the recipe with the
\* organisers named in the request.
SetOrganisers ==
    \E outcome \in Outcomes, d \in Durations :
        /\ pc = "setOrganisers"
        /\ LET succeeded == callSucceeds(WithTimeout, outcome)
               rest == remainingAfterWrite(remaining, recipe.Slug, succeeded)
           IN  /\ recipeCategories' =
                    IF succeeded
                    THEN [recipeCategories EXCEPT
                            ![recipe.Slug] = NamesOf(recipe.Categories)]
                    ELSE recipeCategories
               /\ recipeTags' =
                    IF succeeded
                    THEN [recipeTags EXCEPT ![recipe.Slug] = NamesOf(recipe.Tags)]
                    ELSE recipeTags
               /\ calls' = calls \cup
                    {Call("setOrganisers", recipe.Slug, WithTimeout, outcome,
                          {}, TRUE, FALSE)}
               /\ failed' = failedAfter(succeeded, recipe.Slug)
               /\ remaining' = rest
               /\ pc' = recipeLoopPc(rest)
        /\ recipe' = NoRecipe
        /\ ctx' = "cancelled"
        /\ elapsed' = elapsed + d
        /\ UNCHANGED <<assignments, storeCategories, storeTags, skipAll, taxonomy,
                       assignmentIdx, queryIdx, recipeSlugsRetention, recipeSlugs,
                       ran, failedFetches, apart, caller, nextWaitTime, waited,
                       running, fetches, watch, prev>>

\* What the observer keeps of the cycle that ends: whether the watched
\* assignment was skipped by its validation, and whether a watched call
\* failed.
cycleSummary ==
    IF watch = NoWatch THEN prev
    ELSE [seen |-> TRUE,
          skipped |-> failedFetches = {} /\ watch.a \notin ran,
          failed |-> failed]

\* a cycle end after which the locals of the recipe loop are still there
EndCycleKeepsLocals ==
    /\ pc = "endCycle"
    /\ pc' = "wait"
    /\ ctx' = "none"
    /\ nextWaitTime' = nextWaitTimeOf(repeatTime, elapsed)
    /\ waited' = 0
    /\ running' = running - 1
    /\ fetches' = NoFetches
    /\ ran' = {}
    /\ calls' = {}
    /\ failedFetches' = {}
    /\ failed' = FALSE
    /\ prev' = cycleSummary
    /\ UNCHANGED <<assignments, store, loopLocals, apart, caller, elapsed, watch>>

\* The end of the loop body: timePassed is taken and nextWaitTime computed;
\* the locals of the cycle go out of scope and the goroutine is back at the
\* select, where a new timer is armed.  skipAll is left for the observer: it
\* tells whether the cycle that ended was skipped.
EndCycle ==
    /\ pc = "endCycle"
    /\ pc' = "wait"
    /\ ctx' = "none"
    /\ categories' = <<>>
    /\ categoriesMap' = EmptyMap
    /\ tags' = <<>>
    /\ tagsMap' = EmptyMap
    /\ assignmentIdx' = 0
    /\ queryIdx' = 0
    /\ recipeSlugsRetention' = EmptyMap
    /\ recipeSlugs' = {}
    /\ remaining' = {}
    /\ recipe' = NoRecipe
    /\ nextWaitTime' = nextWaitTimeOf(repeatTime, elapsed)
    /\ waited' = 0
    /\ running' = running - 1
    /\ fetches' = NoFetches
    /\ ran' = {}
    /\ calls' = {}
    /\ failedFetches' = {}
    /\ failed' = FALSE
    /\ prev' = cycleSummary
    /\ UNCHANGED <<assignments, store, skipAll, apart, caller, elapsed, watch>>

\* Another client of the store creates a category or a tag.
StoreLearns ==
    /\ pc \notin {"stopped", "absent"}
    /\ \/ \E n \in CatNames \ storeCategories :
             /\ storeCategories' = storeCategories \cup {n}
             /\ UNCHANGED storeTags
       \/ \E n \in TagNames \ storeTags :
             /\ storeTags' = storeTags \cup {n}
             /\ UNCHANGED storeCategories
    /\ UNCHANGED <<assignments, recipeCategories, recipeTags, pc, ctx, loopLocals,
                   ran, calls, failedFetches, apart, caller, timing, running,
                   fetches, observed>>

\* Another client of the store puts a recipe in a category the store knows,
\* or takes it out of one.
OtherClient ==
    /\ pc \notin {"stopped", "absent"}
    /\ \E r \in Recipes, n \in storeCategories :
          recipeCategories' =
              [recipeCategories EXCEPT
                  ![r] = IF n \in @ THEN @ \ {n} ELSE @ \cup {n}]
    /\ UNCHANGED <<assignments, storeCategories, storeTags, recipeTags, pc, ctx,
                   loopLocals, ran, calls, failedFetches, apart, caller, timing,
                   running, fetches, observed>>

\* the steps of the goroutine
Next ==
    \/ TimerFires
    \/ Quit
    \/ GetCategories
    \/ GetTags
    \/ Validate
    \/ QuerySearch
    \/ QuerySkip
    \/ GetRecipe
    \/ SetOrganisers
    \/ EndCycle

(***************************************************************************)
(* Configurations and initial states.                                      *)
(***************************************************************************)
Query == [params : Filters, mode : Modes]

NoNames == [set |-> <<>>, unset |-> <<>>]

\* no listing is under way and no download request is served
NoPaging == [pc |-> "unused"]
NoLimiter == [cap |-> 0, held |-> 0]

InitPagerIdle ==
    /\ paging = NoPaging
    /\ storePages = 0
    /\ resizes = 0

InitRetrievalIdle ==
    /\ limiter = NoLimiter
    /\ requests = <<>>
    /\ workers = <<>>

InitApart ==
    /\ InitPagerIdle
    /\ InitRetrievalIdle

\* The goroutine's variables before its first cycle, and an empty history.
InitGoroutine ==
    /\ ctx = "none"
    /\ skipAll = FALSE
    /\ categories = <<>>
    /\ categoriesMap = EmptyMap
    /\ tags = <<>>
    /\ tagsMap = EmptyMap
    /\ assignmentIdx = 0
    /\ queryIdx = 0
    /\ recipeSlugsRetention = EmptyMap
    /\ recipeSlugs = {}
    /\ remaining = {}
    /\ recipe = NoRecipe
    /\ ran = {}
    /\ calls = {}
    /\ failedFetches = {}
    /\ elapsed = -1
    /\ nextWaitTime = 0
    /\ waited = 0
    /\ running = 0
    /\ fetches = NoFetches
    /\ failed = FALSE
    /\ prev = NoPrev

\* the goroutine before its first cycle, and nothing else going on
InitLocals ==
    /\ InitGoroutine
    /\ upd = [phase |-> "unused"]
    /\ InitApart

\* The state after launchAssignmentLoop has started the goroutine for the
\* configuration: it is at the select with a wait time of zero.  The host
\* has begun its send on the quit channel, so that the select can take
\* either case at every wait; the repeat interval is zero and store calls
\* take no measurable time.
InitLoop ==
    /\ pc = "wait"
    /\ host = "sending"
    /\ quit = "chan"
    /\ repeatTime = 0
    /\ latency = 0
    /\ watch = NoWatch
    /\ InitLocals

\* Query-rich configurations: one assignment that sets the category Made,
\* with every query list up to MaxQueries; the store knows every name.
QueryConfigs ==
    {<<[queries |-> qs,
        categories |-> [set |-> <<"Made">>, unset |-> <<>>],
        tags |-> NoNames]>> : qs \in SeqsUpTo(Query, MaxQueries)}

InitQ ==
    /\ assignments \in QueryConfigs
    /\ storeCategories = CatNames
    /\ storeTags = TagNames
    /\ recipeCategories \in [Recipes -> SUBSET {"Made"}]
    /\ recipeTags = [r \in Recipes |-> {}]
    /\ InitLoop

SpecQ == InitQ /\ [][Next]_vars


\* Label-rich configurations: NumAssignments assignments, each matching every
\* recipe, drawn from: the two assignments of the documented example (one
\* marks made recipes, the other unmade ones) and one that only sets a tag
\* and has a switched-off query in front.
NumAssignments == 2

AllAdded == <<[params |-> "all", mode |-> "add"]>>

AssignmentPool ==
    {[queries |-> AllAdded,
      categories |-> [set |-> <<"Made">>, unset |-> <<"NotMade">>],
      tags |-> [set |-> <<"Yummy">>, unset |-> <<>>]],
     [queries |-> AllAdded,
      categories |-> [set |-> <<"NotMade">>, unset |-> <<"Made">>],
      tags |-> [set |-> <<>>, unset |-> <<"Yummy">>]],
     [queries |-> <<[params |-> "Made", mode |-> "skip"]>> \o AllAdded,
      categories |-> NoNames,
      tags |-> [set |-> <<"Yummy">>, unset |-> <<>>]]}

\* the configurations that list NumAssignments different assignments
LabelConfigs ==
    {c \in [1..NumAssignments -> AssignmentPool] :
        \A i, j \in 1..NumAssignments : c[i] = c[j] => i = j}

\* The store knows any part of the names; a recipe carries only categories
\* the store knows, and no tag yet.
Init ==
    /\ assignments \in LabelConfigs
    /\ storeCategories \in SUBSET CatNames
    /\ storeTags \in SUBSET TagNames
    /\ recipeCategories \in [Recipes -> SUBSET storeCategories]
    /\ recipeTags = [r \in Recipes |-> {}]
    /\ InitLoop

Spec == Init /\ [][Next]_vars


(***************************************************************************)
(* The host and the timer: launchAssignmentLoop is called for a            *)
(* configuration that may be empty, the host sends on the handle when it   *)
(* likes, the repeat interval and the time store calls take vary.          *)
(***************************************************************************)
\* the configurations of the timed specification: no assignment, and an
\* assignment with two searching queries followed by a tag assignment with
\* a switched-off query in front
TwoQueries ==
    [queries |-> <<[params |-> "all", mode |-> "add"],
                   [params |-> "Made", mode |-> "remove"]>>,
     categories |-> [set |-> <<"Made">>, unset |-> <<>>],
     tags |-> NoNames]

TagOnly ==
    [queries |-> <<[params |-> "Made", mode |-> "skip"]>> \o AllAdded,
     categories |-> NoNames,
     tags |-> [set |-> <<"Yummy">>, unset |-> <<>>]]

SchedConfigs == {<<>>, <<TwoQueries, TagOnly>>}

\* the first recipe is in category Made, the others in none
MadeFirst == [r \in Recipes |-> IF r = 1 THEN {"Made"} ELSE {}]

\* RepeatSecs is a free integer of the configuration: one interval below
\* zero is among the repeat intervals of the timed specification.
InitS ==
    /\ assignments \in SchedConfigs
    /\ storeCategories = CatNames
    /\ storeTags = TagNames
    /\ recipeCategories = MadeFirst
    /\ recipeTags = [r \in Recipes |-> {}]
    /\ pc = "unstarted"
    /\ host = "init"
    /\ quit = "unmade"
    /\ repeatTime \in (0 - 1)..MaxRepeat
    /\ latency = MaxLatency
    /\ watch = NoWatch
    /\ InitLocals

NextS ==
    \/ Launch
    \/ HostSend
    \/ Tick
    \/ Next

SpecS == InitS /\ [][NextS]_vars

\* The steps of a cycle end: every store call runs under a deadline, and
\* the rest is local computation.  Time passes.
Progress ==
    \/ TimerFires
    \/ Tick
    \/ GetCategories
    \/ GetTags
    \/ Validate
    \/ QuerySearch
    \/ QuerySkip
    \/ GetRecipe
    \/ SetOrganisers
    \/ EndCycle

\* The configurations of the timed specification under the longest repeat
\* interval, with store calls that take no measurable time.
InitL ==
    /\ assignments \in SchedConfigs
    /\ storeCategories = CatNames
    /\ storeTags = TagNames
    /\ recipeCategories = MadeFirst
    /\ recipeTags = [r \in Recipes |-> {}]
    /\ pc = "unstarted"
    /\ host = "init"
    /\ quit = "unmade"
    /\ repeatTime = MaxRepeat
    /\ latency = 0
    /\ watch = NoWatch
    /\ InitLocals

SpecL == InitL /\ [][NextS]_vars

\* The goroutine keeps running, and a select that finds the quit case ready
\* again and again takes it at some point (the runtime picks among the
\* ready cases at random).
FairSpecL == SpecL /\ WF_vars(Progress) /\ SF_vars(Quit)


(***************************************************************************)
(* Consecutive cycles: the observer keeps the failures of the cycle and    *)
(* the summary of the cycle before, and other clients of the store create  *)
(* categories and tags at any time.                                        *)
(***************************************************************************)
\* the recipe R of the scenario: the first one
ScenarioRecipe == CHOOSE r \in Recipes : \A q \in Recipes : r <= q

\* the assignment of the documented scenario
ScenarioAssignment ==
    [queries |-> AllAdded,
     categories |-> [set |-> <<"Made">>, unset |-> <<"NotMade">>],
     tags |-> [set |-> <<"Yummy">>, unset |-> <<>>]]

CycleConfigs == {<<ScenarioAssignment, TagOnly>>}

InitC ==
    /\ assignments \in CycleConfigs
    /\ storeCategories \in SUBSET CatNames
    /\ storeTags \in SUBSET TagNames
    /\ recipeCategories \in [Recipes -> SUBSET storeCategories]
    /\ recipeTags = [r \in Recipes |-> {}]
    /\ pc = "wait"
    /\ host = "sending"
    /\ quit = "chan"
    /\ repeatTime = 0
    /\ latency = 0
    /\ watch \in [a : DOMAIN assignments, r : {ScenarioRecipe}]
    /\ InitLocals

NextC ==
    \/ StoreLearns
    \/ Next

SpecC == InitC /\ [][NextC]_vars


(***************************************************************************)
(* The documented scenario: categories Made and NotMade, tags Yummy and    *)
(* Unknown, one assignment with one add query, and recipe 1 in category    *)
(* NotMade without tags.                                                   *)
(***************************************************************************)
ScenarioTags == {"Yummy", "Unknown"}

InitX ==
    /\ assignments = <<ScenarioAssignment>>
    /\ storeCategories = CatNames
    /\ storeTags = ScenarioTags
    /\ recipeCategories \in {f \in [Recipes -> SUBSET CatNames] :
                                f[ScenarioRecipe] = {"NotMade"}}
    /\ recipeTags = [r \in Recipes |-> {}]
    /\ pc = "wait"
    /\ host = "sending"
    /\ quit = "chan"
    /\ repeatTime = 0
    /\ latency = 0
    /\ watch = [a |-> 1, r |-> ScenarioRecipe]
    /\ InitLocals

\* the steps of the goroutine when every query of the configuration searches
NextX ==
    \/ TimerFires
    \/ Quit
    \/ GetCategories
    \/ GetTags
    \/ Validate
    \/ QuerySearch
    \/ GetRecipe
    \/ SetOrganisers
    \/ EndCycle

SpecX == InitX /\ [][NextX]_vars


(***************************************************************************)
(* Undisturbed operation: no store call fails, no other client touches the *)
(* store, every name of the configuration is known, and the host never     *)
(* sends on the handle.  The rule set has a fixed point: every recipe in   *)
(* category Made, out of NotMade, tagged Yummy.                            *)
(***************************************************************************)
\* no call of the cycle so far has failed
Calm ==
    /\ failedFetches = {}
    /\ \A c \in calls : c.ok

InitG ==
    /\ assignments \in CycleConfigs
    /\ storeCategories = CatNames
    /\ storeTags = TagNames
    /\ recipeCategories \in [Recipes -> SUBSET CatNames]
    /\ recipeTags = [r \in Recipes |-> {}]
    /\ pc = "wait"
    /\ host = "started"
    /\ quit = "chan"
    /\ repeatTime = MaxRepeat
    /\ latency = 0
    /\ watch = NoWatch
    /\ InitLocals

\* the steps of the goroutine in which the store answers
NextG ==
    \/ TimerFires /\ Calm'
    \/ Tick /\ Calm'
    \/ GetCategories /\ Calm'
    \/ GetTags /\ Calm'
    \/ Validate /\ Calm'
    \/ QuerySearch /\ Calm'
    \/ QuerySkip /\ Calm'
    \/ GetRecipe /\ Calm'
    \/ SetOrganisers /\ Calm'
    \/ EndCycle /\ Calm'

SpecG == InitG /\ [][NextG]_vars

\* the goroutine keeps running
FairSpecG == SpecG /\ WF_vars(NextG)


(***************************************************************************)
(* Assignments that build on each other: the first puts every recipe in    *)
(* category Made, the second tags the recipes of category Made.  No recipe *)
(* is in a category at the start and no other client changes the store.    *)
(***************************************************************************)
TagsMade ==
    [queries |-> <<[params |-> "Made", mode |-> "skip"],
                   [params |-> "Made", mode |-> "add"]>>,
     categories |-> NoNames,
     tags |-> [set |-> <<"Yummy">>, unset |-> <<>>]]

InitA ==
    /\ assignments = <<ScenarioAssignment, TagsMade>>
    /\ storeCategories = CatNames
    /\ storeTags = TagNames
    /\ recipeCategories = [r \in Recipes |-> {}]
    /\ recipeTags = [r \in Recipes |-> {}]
    /\ pc = "wait"
    /\ host = "sending"
    /\ quit = "chan"
    /\ repeatTime = 0
    /\ latency = 0
    /\ watch = [a |-> Len(assignments), r |-> ScenarioRecipe]
    /\ InitLocals

SpecA == InitA /\ [][Next]_vars

\* the same configuration with another client at work on the recipes
NextO ==
    \/ OtherClient
    \/ Next

SpecO == InitA /\ [][NextO]_vars


(***************************************************************************)
(* The update step on its own: updateSlice applied to the categories of a  *)
(* recipe for the set and unset lists of an assignment, and applied again  *)
(* to its own result.                                                      *)
(***************************************************************************)
\* the organisers a recipe's slice can hold: decoded from a recipe of the
\* store (kind "") or taken from the fetched categories by an earlier update
CategoryTerms == {organiser(n, k) : n \in CatNames, k \in {"", "categories"}}

\* categoriesMap when the store knows every category
FullCategoriesMap == organiserMap(getOrganisers(CatNames, "categories"))

NoUpdate == [slice |-> {}, changed |-> FALSE]

updateOf(original) ==
    updateSlice(original, indexedSlice(FullCategoriesMap, upd.set),
                indexedSlice(FullCategoriesMap, upd.unset))

InitU ==
    /\ upd \in [phase : {"start"},
                original : SeqsUpTo(CategoryTerms, MaxLen),
                set : SeqsUpTo(CatNames, MaxLen),
                unset : SeqsUpTo(CatNames, MaxLen),
                first : {NoUpdate},
                second : {NoUpdate}]
    /\ assignments = <<>>
    /\ storeCategories = CatNames
    /\ storeTags = TagNames
    /\ recipeCategories = [r \in Recipes |-> {}]
    /\ recipeTags = [r \in Recipes |-> {}]
    /\ pc = "stopped"
    /\ ctx = "none"
    /\ skipAll = FALSE
    /\ categories = <<>>
    /\ categoriesMap = EmptyMap
    /\ tags = <<>>
    /\ tagsMap = EmptyMap
    /\ assignmentIdx = 0
    /\ queryIdx = 0
    /\ recipeSlugsRetention = EmptyMap
    /\ recipeSlugs = {}
    /\ remaining = {}
    /\ recipe = NoRecipe
    /\ ran = {}
    /\ calls = {}
    /\ failedFetches = {}
    /\ host = "done"
    /\ quit = "chan"
    /\ repeatTime = 0
    /\ latency = 0
    /\ elapsed = -1
    /\ nextWaitTime = 0
    /\ waited = 0
    /\ running = 0
    /\ fetches = NoFetches
    /\ watch = NoWatch
    /\ failed = FALSE
    /\ prev = NoPrev
    /\ InitApart

loopVars == <<assignments, store, pc, ctx, loopLocals, ran, calls, failedFetches,
              caller, timing, running, fetches, observed>>

\* the first application, to the recipe's slice
ApplyOnce ==
    /\ upd.phase = "start"
    /\ upd' = [upd EXCEPT !.phase = "once", !.first = updateOf(upd.original)]
    /\ UNCHANGED <<loopVars, pagerVars, retrievalVars>>

\* the second application, to the slice the first one returned, in whatever
\* order the map iteration listed it
ApplyAgain ==
    \E listed \in Orderings(upd.first.slice) :
        /\ upd.phase = "once"
        /\ upd' = [upd EXCEPT !.phase = "twice", !.second = updateOf(listed)]
        /\ UNCHANGED <<loopVars, pagerVars, retrievalVars>>

NextU ==
    \/ ApplyOnce
    \/ ApplyAgain

SpecU == InitU /\ [][NextU]_vars


(***************************************************************************)
(* The pagination loop of getSlugs and getOrganisers (mealie.go), one call *)
(* on its own.  The store lists a collection of storePages pages; every    *)
(* response carries the items of the requested page and the number of      *)
(* pages the collection has at that moment.  The per_page items of a page  *)
(* are folded into one item that carries the page's number.                *)
(***************************************************************************)
\* kind is a free string of the caller
Kinds == {"categories", "tags", "bogus"}

\* How one page request ends: answered and decoded, or failed in
\* http.DefaultClient.Do (the context's deadline included), in io.ReadAll,
\* by a status other than 200, or in json.Unmarshal.
PageOutcomes == {"ok", "doErr", "readErr", "status", "decodeErr"}

\* the items of page p of a collection of held pages, as decoded
pageItems(p, held) ==
    IF p \in 1..held THEN <<[item |-> p, kind |-> ""]>> ELSE <<>>

\* if kind != "categories" && kind != "tags": rejected
kindAccepted(kind) == kind \in {"categories", "tags"}

\* a loop test that leaves before the last page
morePagesStrict(page, lastPage) == page < lastPage

\* for page <= lastPage
morePages(page, lastPage) == page <= lastPage

\* a failure that hands out what was collected so far
pageFailurePartial(slugsSoFar) == slugsSoFar

\* return nil, err
pageFailure(slugsSoFar) == <<>>

\* for idx := range slugs { slugs[idx].kind = kind }
withKind(slugs, kind) == [i \in DOMAIN slugs |-> [slugs[i] EXCEPT !.kind = kind]]

\* what the function returns after its loop
resultOf(fn, slugs, kind) ==
    IF fn = "getOrganisers" THEN withKind(slugs, kind) ELSE slugs

\* The entry of the function: getOrganisers checks its kind; page and
\* lastPage are set and the loop test is made for the first time.
Enter ==
    /\ paging.pc = "entry"
    /\ paging' =
          IF paging.fn = "getOrganisers" /\ ~kindAccepted(paging.kind)
          THEN [paging EXCEPT !.pc = "returned", !.err = "kind"]
          ELSE IF morePages(1, InitialLastPage)
          THEN [paging EXCEPT !.pc = "loop", !.page = 1,
                              !.lastPage = InitialLastPage]
          ELSE [paging EXCEPT !.pc = "returned", !.page = 1,
                              !.lastPage = InitialLastPage,
                              !.result = resultOf(paging.fn, <<>>, paging.kind)]
    /\ UNCHANGED <<loopVars, upd, storePages, resizes, retrievalVars>>

\* One turn of the loop: the request for the page, the checks of the
\* response, lastPage and slugs updated, page++, and the loop test.
PageRequest ==
    \E outcome \in PageOutcomes :
        /\ paging.pc = "loop"
        /\ LET requested == Append(paging.requested, paging.page)
               slugs == paging.slugs \o pageItems(paging.page, storePages)
               lastPage == storePages
               page == paging.page + 1
           IN  paging' =
                 IF outcome # "ok"
                 THEN [paging EXCEPT !.pc = "returned", !.err = outcome,
                                     !.requested = requested,
                                     !.result = pageFailure(paging.slugs)]
                 ELSE IF morePages(page, lastPage)
                 THEN [paging EXCEPT !.requested = requested, !.slugs = slugs,
                                     !.lastPage = lastPage, !.page = page]
                 ELSE [paging EXCEPT !.pc = "returned",
                                     !.requested = requested, !.slugs = slugs,
                                     !.lastPage = lastPage, !.page = page,
                                     !.result = resultOf(paging.fn, slugs,
                                                         paging.kind)]
        /\ UNCHANGED <<loopVars, upd, storePages, resizes, retrievalVars>>

\* The collection changes while it is listed: it gains or loses a page.
StoreResizes ==
    /\ paging.pc = "loop"
    /\ resizes < MaxResizes
    /\ \E n \in {storePages - 1, storePages + 1} :
          /\ n \in 0..MaxPages
          /\ storePages' = n
    /\ resizes' = resizes + 1
    /\ UNCHANGED <<loopVars, upd, paging, retrievalVars>>

\* the loop of launchAssignmentLoop is not running
IdleLoop ==
    /\ assignments = <<>>
    /\ storeCategories = CatNames
    /\ storeTags = TagNames
    /\ recipeCategories = [r \in Recipes |-> {}]
    /\ recipeTags = [r \in Recipes |-> {}]
    /\ pc = "stopped"
    /\ host = "done"
    /\ quit = "chan"
    /\ repeatTime = 0
    /\ latency = 0
    /\ watch = NoWatch
    /\ InitGoroutine

\* the call as it starts
Entered(fn, kind) ==
    [pc |-> "entry", fn |-> fn, kind |-> kind, page |-> 0, lastPage |-> 0,
     slugs |-> <<>>, requested |-> <<>>, result |-> <<>>, err |-> "none"]

InitP ==
    /\ paging \in {Entered("getSlugs", "")}
                     \cup {Entered("getOrganisers", k) : k \in Kinds}
    /\ storePages \in 0..MaxPages
    /\ resizes = 0
    /\ upd = [phase |-> "unused"]
    /\ InitRetrievalIdle
    /\ IdleLoop

NextP ==
    \/ Enter
    \/ PageRequest
    \/ StoreResizes

SpecP == InitP /\ [][NextP]_vars

\* the steps of the function
PageStep ==
    \/ Enter
    \/ PageRequest

\* The function keeps running: every request is made under the caller's
\* context and comes back, answered or failed.
FairSpecP == SpecP /\ WF_vars(PageStep)


(***************************************************************************)
(* getRecipes (mealie.go), called by the handlers of the download requests *)
(* that are served at the same time, all with the one mealie value and so  *)
(* the one limiter channel main made.  A call searches its slugs, starts a *)
(* goroutine for each and waits for them; the goroutine takes a place in   *)
(* the limiter, retrieves its recipe, stores the outcome at its index,     *)
(* reports to the wait group and gives its place back.                     *)
(***************************************************************************)
\* the download requests served at the same time
Requesters == {"a", "b"}

\* The slugs a search with n matches returns: the store lists them in an
\* order of its own, here the n-th recipe first.
slugsOf(n) == [i \in 1..n |-> n + 1 - i]

\* make(chan bool, cfg.retrievalLimit), or nil for a limit of zero
limiterOf(retrievalLimit) == [cap |-> retrievalLimit, held |-> 0]

\* a send that never waits
canSendAlways(lim) == TRUE

\* m.limiter <- true: a send on the nil channel is never made (the nil
\* check), a send on the buffered channel waits while it is full
canSend(lim) == lim.cap = 0 \/ lim.held < lim.cap

afterSend(lim) ==
    IF lim.cap = 0 THEN lim ELSE [lim EXCEPT !.held = @ + 1]

\* a goroutine that keeps its place
afterReceiveKept(lim) == lim

\* <-m.limiter
afterReceive(lim) ==
    IF lim.cap = 0 THEN lim ELSE [lim EXCEPT !.held = @ - 1]

\* idx := idx: the goroutine stores at the index of its own iteration
slotOf(idx, numSlugs) == idx

\* errors.Join(errs...): nil when every entry is nil
joined(errs) == IF \E i \in DOMAIN errs : errs[i] THEN "joined" ELSE "none"

\* a goroutine as the go statement starts it; err is its local of that name
Started == [pc |-> "start", err |-> FALSE]

\* The call up to wg.Wait(): the search of the slugs, and one goroutine
\* started per slug.
StartRetrieval(q) ==
    \E outcome \in {"ok", "err"} :
        /\ requests[q].pc = "getSlugs"
        /\ LET slugs == slugsOf(requests[q].matches)
           IN  IF outcome = "err"
               THEN /\ requests' = [requests EXCEPT ![q].pc = "returned",
                                                    ![q].err = "slugs"]
                    /\ UNCHANGED workers
               ELSE /\ requests' =
                         [requests EXCEPT
                             ![q].pc = "wait",
                             ![q].slugs = slugs,
                             ![q].wg = Len(slugs),
                             ![q].recipes = [i \in DOMAIN slugs |-> 0],
                             ![q].errs = [i \in DOMAIN slugs |-> FALSE]]
                    /\ workers' = [workers EXCEPT
                                      ![q] = [i \in DOMAIN slugs |-> Started]]
        /\ UNCHANGED <<loopVars, upd, pagerVars, limiter>>

\* The goroutine of slug idx takes its place in the limiter.
Acquire(q, idx) ==
    /\ workers[q][idx].pc = "start"
    /\ canSend(limiter)
    /\ limiter' = afterSend(limiter)
    /\ workers' = [workers EXCEPT ![q][idx].pc = "getRecipe"]
    /\ UNCHANGED <<loopVars, upd, pagerVars, requests>>

\* getRecipe returns: the recipe or the error is stored, and wg.Done().
Retrieve(q, idx) ==
    \E outcome \in {"ok", "err"} :
        /\ workers[q][idx].pc = "getRecipe"
        /\ LET slot == slotOf(idx, Len(requests[q].slugs))
           IN  requests' =
                 IF outcome = "ok"
                 THEN [requests EXCEPT
                         ![q].recipes[slot] = requests[q].slugs[idx],
                         ![q].wg = @ - 1]
                 ELSE [requests EXCEPT ![q].errs[slot] = TRUE,
                                       ![q].wg = @ - 1]
        /\ workers' = [workers EXCEPT ![q][idx].pc = "done",
                                      ![q][idx].err = outcome = "err"]
        /\ UNCHANGED <<loopVars, upd, pagerVars, limiter>>

\* The goroutine gives its place back and ends.
Release(q, idx) ==
    /\ workers[q][idx].pc = "done"
    /\ limiter' = afterReceive(limiter)
    /\ workers' = [workers EXCEPT ![q][idx].pc = "exit"]
    /\ UNCHANGED <<loopVars, upd, pagerVars, requests>>

\* wg.Wait() returns, and the call with it.
ReturnRecipes(q) ==
    /\ requests[q].pc = "wait"
    /\ requests[q].wg = 0
    /\ requests' = [requests EXCEPT ![q].pc = "returned",
                                    ![q].err = joined(requests[q].errs)]
    /\ UNCHANGED <<loopVars, upd, pagerVars, limiter, workers>>

\* a call of getRecipes whose search will match n slugs
Called(n) ==
    [pc |-> "getSlugs", matches |-> n, slugs |-> <<>>, wg |-> 0,
     recipes |-> <<>>, errs |-> <<>>, err |-> "none"]

InitD ==
    /\ limiter \in {limiterOf(n) : n \in 0..MaxLimit}
    /\ requests \in [Requesters -> {Called(n) : n \in 0..MaxSlugs}]
    /\ workers = [q \in Requesters |-> <<>>]
    /\ upd = [phase |-> "unused"]
    /\ InitPagerIdle
    /\ IdleLoop

NextD ==
    \/ \E q \in Requesters : StartRetrieval(q)
    \/ \E q \in Requesters : \E idx \in DOMAIN workers[q] : Acquire(q, idx)
    \/ \E q \in Requesters : \E idx \in DOMAIN workers[q] : Retrieve(q, idx)
    \/ \E q \in Requesters : \E idx \in DOMAIN workers[q] : Release(q, idx)
    \/ \E q \in Requesters : ReturnRecipes(q)

SpecD == InitD /\ [][NextD]_vars

\* Every goroutine is scheduled, every retrieval runs under the request's
\* context and comes back, and the handler goes on when its wait is over.
FairSpecD == SpecD /\ WF_vars(NextD)


(***************************************************************************)
(* Properties.                                                             *)
(***************************************************************************)
currentAssignment == assignments[assignmentIdx]

searches == {c \in calls : c.op = "getSlugs"}

\* the queries of the current assignment have all been evaluated
QueriesDone ==
    \/ pc \in {"getRecipe", "setOrganisers"}
    \/ pc \in {"assignment", "endCycle"} /\ assignmentIdx \in ran

\* the pass of the current assignment has ended
PassDone == pc \in {"assignment", "endCycle"} /\ assignmentIdx \in ran

\* the searches that succeeded and matched slug r
matching(r) == {c \in searches : c.ok /\ r \in c.matched}

\* C1: once the queries of an assignment are evaluated, the working set is
\* exactly the set of slugs whose last matching successful add/remove query,
\* in declared order, has mode add.
C1_LastMatchDecides ==
    QueriesDone =>
        recipeSlugs =
            {r \in Recipes :
                \E c \in matching(r) :
                    /\ currentAssignment.queries[c.k].mode = "add"
                    /\ \A d \in matching(r) : d.k <= c.k}

\* queries [add matching A, remove matching A \cap B] were both answered,
\* and the working set is A \ B, neither empty nor all of A
C1_Witness ==
    /\ pc = "getRecipe"
    /\ remaining = recipeSlugs
    /\ currentAssignment.queries = <<[params |-> "all", mode |-> "add"],
                                     [params |-> "Made", mode |-> "remove"]>>
    /\ \A c \in searches : c.ok
    /\ recipeSlugs = {r \in Recipes : "Made" \notin recipeCategories[r]}
    /\ recipeSlugs # {}
    /\ recipeSlugs # Recipes

\* C2: the update applied a second time, to the result of the first,
\* reports no change and returns the same set, whatever the set and unset
\* lists and the recipe's slice are.
C2_Idempotent ==
    upd.phase = "twice" =>
        /\ ~upd.second.changed
        /\ upd.second.slice = upd.first.slice

\* C3: the changed flag of updateSlice is true exactly when the result
\* differs from the original as a set.
C3_ChangedIffDiffers ==
    upd.phase \in {"once", "twice"} =>
        (upd.first.changed <=> upd.first.slice # Range(upd.original))

\* C4: the categories and tags about to be written for a recipe are, by
\* name, (those the store holds for it, with the set names) without the
\* unset names.
C4_WrittenIsSetMinusUnset ==
    pc = "setOrganisers" =>
        /\ NamesOf(recipe.Categories) =
              (recipeCategories[recipe.Slug]
                  \cup Range(currentAssignment.categories.set))
              \ Range(currentAssignment.categories.unset)
        /\ NamesOf(recipe.Tags) =
              (recipeTags[recipe.Slug] \cup Range(currentAssignment.tags.set))
              \ Range(currentAssignment.tags.unset)

NameUnique(terms) == \A t, u \in terms : t.Name = u.Name => t = u

\* C5: categories and tags are sets keyed by name: a changed recipe differs
\* by name from what the store holds, carries no unset name, and no two of
\* its terms share a name.
C5_KeyedByName ==
    pc = "setOrganisers" =>
        /\ \/ NamesOf(recipe.Categories) # recipeCategories[recipe.Slug]
           \/ NamesOf(recipe.Tags) # recipeTags[recipe.Slug]
        /\ NamesOf(recipe.Categories)
              \cap Range(currentAssignment.categories.unset) = {}
        /\ NamesOf(recipe.Tags) \cap Range(currentAssignment.tags.unset) = {}
        /\ NameUnique(recipe.Categories)
        /\ NameUnique(recipe.Tags)

\* every name of assignment i is in the snapshot of this cycle
AllNamesKnown(i) ==
    /\ Range(assignments[i].categories.set) \subseteq Range(categories)
    /\ Range(assignments[i].categories.unset) \subseteq Range(categories)
    /\ Range(assignments[i].tags.set) \subseteq Range(tags)
    /\ Range(assignments[i].tags.unset) \subseteq Range(tags)

\* C6: no search, fetch or write is issued for an assignment that names an
\* organiser missing from the cycle's snapshot, and at the end of a cycle
\* that was not skipped every assignment whose names all resolve has run.
C6_ValidationGating ==
    /\ (pc \in {"query", "getRecipe", "setOrganisers"} \/ calls # {})
          => AllNamesKnown(assignmentIdx)
    /\ \A i \in ran : AllNamesKnown(i)
    /\ (pc = "endCycle" /\ failedFetches = {})
          => \A i \in DOMAIN assignments : AllNamesKnown(i) => i \in ran

\* the first assignment was skipped for an unknown name, the second has run
\* and written a recipe
C6_Witness ==
    /\ pc = "endCycle"
    /\ failedFetches = {}
    /\ ~AllNamesKnown(1)
    /\ ran = {2}
    /\ \E c \in calls : c.op = "setOrganisers" /\ c.ok

\* C7: when the category fetch or the tag fetch of a cycle has failed, no
\* assignment runs and no search, fetch or write is issued in that cycle:
\* the goroutine goes on to the end of the cycle.
C7_FetchFailureSkipsCycle ==
    failedFetches # {} =>
        /\ pc \in {"getTags", "endCycle"}
        /\ ran = {}
        /\ calls = {}
        /\ assignmentIdx = 0

\* the category fetch failed, the tag fetch succeeded, the cycle is over
C7_Witness ==
    /\ pc = "endCycle"
    /\ failedFetches = {"categories"}
    /\ tags # <<>>

\* C8: when the search of one query fails, every other query whose search
\* the store answers still contributes its matches.
C8_QueryFailureIsolated ==
    \A c, d \in searches :
        (c.k # d.k /\ ~c.ok /\ d.healthy) => d.ok

\* C9: every store call starts under a deadline that has not expired.
C9_FreshDeadlinePerCall ==
    \A c \in calls : c.live

fetchOf(r) == {c \in calls : c.op = "getRecipe" /\ c.k = r}
writeOf(r) == {c \in calls : c.op = "setOrganisers" /\ c.k = r}

\* C10: a recipe whose fetch failed is not written, and when the pass of an
\* assignment has ended every recipe of its working set was fetched and,
\* if fetched and changed, written.
C10_RecipeFailureIsolated ==
    /\ \A r \in Recipes :
          (\E c \in fetchOf(r) : ~c.ok) => writeOf(r) = {}
    /\ PassDone =>
          \A r \in recipeSlugs :
              /\ fetchOf(r) # {}
              /\ (\E c \in fetchOf(r) : c.ok /\ c.changed) => writeOf(r) # {}

\* two recipes were in the working set, the fetch of one failed, the other
\* was fetched and written
C10_Witness ==
    /\ PassDone
    /\ \E r, q \in recipeSlugs :
          /\ r # q
          /\ \E c \in fetchOf(r) : ~c.ok
          /\ \E c \in writeOf(q) : c.ok

\* C11: a write is issued for a fetched recipe exactly when its categories
\* or its tags changed: a recipe awaiting its write differs by name from
\* what was fetched and has not been written in this pass, no recipe is
\* written twice in a pass, and when the pass has ended every fetched recipe
\* that differs has had its write.
C11_WriteIffChanged ==
    /\ \A r \in Recipes : Cardinality(writeOf(r)) <= 1
    /\ pc = "setOrganisers" =>
          /\ writeOf(recipe.Slug) = {}
          /\ \E c \in fetchOf(recipe.Slug) : c.ok /\ c.differs
    /\ PassDone =>
          \A r \in recipeSlugs :
              (\E c \in fetchOf(r) : c.ok /\ c.differs) => writeOf(r) # {}

\* the goroutine is inside a cycle
InCycle ==
    pc \in {"getCategories", "getTags", "assignment", "query", "getRecipe",
            "setOrganisers", "endCycle"}

\* the goroutine is past the organiser fetches of its cycle
PastFetches ==
    pc \in {"assignment", "query", "getRecipe", "setOrganisers", "endCycle"}

\* what a step may do about stopping
StopStep ==
    /\ (pc' = "stopped" /\ pc # "stopped") => (pc = "wait" /\ host = "sending")
    /\ (pc' = "wait" /\ InCycle) => pc = "endCycle"
    /\ pc = "stopped" => (pc' = "stopped" /\ UNCHANGED <<store, calls, running>>)

\* C12: the goroutine stops only from the select and only on the host's
\* signal; a cycle that has started reaches its end with every assignment
\* processed (or the cycle skipped) before the goroutine is back at the
\* select; once stopped, no cycle is in progress and nothing changes any more.
C12_CooperativeCancellation ==
    /\ [](pc = "endCycle" => (skipAll \/ assignmentIdx = Len(assignments)))
    /\ [](pc = "stopped" => (running = 0 /\ host = "done"))
    /\ [][StopStep]_vars

\* the host's signal is pending while a cycle is writing a recipe
C12_Witness ==
    /\ host = "sending"
    /\ pc = "setOrganisers"
    /\ running = 1

\* C13: whatever the configuration, a send the host has begun on the handle
\* completes, and the goroutine, if there is one, stops.
C13_SendCompletes ==
    (host = "sending") ~> (host = "done" /\ pc \in {"stopped", "absent"})

\* C14: a cycle that follows another starts when the goroutine has waited
\* max(repeatTime - T, 0), T being the time the cycle before took.
C14_DriftCompensation ==
    [][(pc = "wait" /\ pc' = "getCategories" /\ elapsed >= 0)
          => waited = Max(repeatTime - elapsed, 0)]_vars

\* a skipped cycle took less than the repeat interval, and the remainder
\* has been waited out
C14_Witness ==
    /\ pc = "wait"
    /\ skipAll
    /\ elapsed > 0
    /\ elapsed < repeatTime
    /\ nextWaitTime = repeatTime - elapsed
    /\ waited = nextWaitTime

\* C15: at most one cycle is in progress, and a cycle starts only from the
\* select, with no cycle in progress and the armed timer expired.
C15_NoConcurrentCycles ==
    /\ [](running <= 1)
    /\ [](running = IF InCycle THEN 1 ELSE 0)
    /\ [][running' > running
             => (running = 0 /\ pc = "wait" /\ waited = nextWaitTime)]_vars

\* a cycle has started after an earlier one ended and its wait was over
C15_Witness ==
    /\ pc = "getCategories"
    /\ running = 1
    /\ nextWaitTime > 0
    /\ waited = nextWaitTime

\* C16: from every point of a cycle, whatever has failed in it, the
\* goroutine gets back to the select with a newly armed timer, and it stops
\* only from the select on the host's signal.
C16_FailuresDoNotStopLoop ==
    /\ InCycle ~> (pc = "wait" /\ waited = 0)
    /\ [][(pc' = "stopped" /\ pc # "stopped")
             => (pc = "wait" /\ host = "sending")]_vars

\* a cycle was skipped for a failed organiser fetch, and the goroutine is
\* back at the select with a newly armed timer
C16_Witness ==
    /\ pc = "wait"
    /\ skipAll
    /\ elapsed >= 0
    /\ waited = 0
    /\ host = "started"

\* the last successful search of this pass that matched r was an add
stillMatches(r) ==
    \E c \in matching(r) :
        /\ currentAssignment.queries[c.k].mode = "add"
        /\ \A d \in matching(r) : d.k <= c.k

\* C17: at the select nothing is left of the recipes of the cycle before,
\* and a recipe whose fetch or write failed under an assignment in the
\* cycle before is fetched again in the pass of that assignment when it
\* still matches.
C17_RetryNextCycle ==
    /\ pc = "wait" =>
          /\ recipeSlugsRetention = EmptyMap
          /\ recipeSlugs = {}
          /\ remaining = {}
          /\ recipe = NoRecipe
    /\ (PassDone /\ assignmentIdx = watch.a /\ prev.failed
            /\ stillMatches(watch.r))
          => fetchOf(watch.r) # {}

\* the watched recipe failed in the cycle before and has now been written
C17_Witness ==
    /\ PassDone
    /\ assignmentIdx = watch.a
    /\ prev.failed
    /\ \E c \in writeOf(watch.r) : c.ok

\* C18: in the documented scenario the first cycle, when none of its calls
\* fails, leaves the recipe in exactly the category Made with exactly the
\* tag Yummy, reports a change and writes the recipe once.
C18_Scenario ==
    (/\ pc = "endCycle"
     /\ ~prev.seen
     /\ failedFetches = {}
     /\ \A c \in calls : c.ok)
        => /\ recipeCategories[ScenarioRecipe] = {"Made"}
           /\ recipeTags[ScenarioRecipe] = {"Yummy"}
           /\ \E c \in fetchOf(ScenarioRecipe) : c.changed
           /\ Cardinality(writeOf(ScenarioRecipe)) = 1

\* C19: a query whose mode is neither add nor remove issues no store call,
\* leaves the retention map and the store as they are, and is followed by
\* the next query or, after the last one, by the recipes.
C19_SkipIsNoOp ==
    [][(pc = "query" /\ currentAssignment.queries[queryIdx].mode
                            \notin {"add", "remove"})
          => /\ calls' = calls
             /\ recipeSlugsRetention' = recipeSlugsRetention
             /\ UNCHANGED store
             /\ IF queryIdx = Len(currentAssignment.queries)
                THEN pc' # "query"
                ELSE pc' = "query" /\ queryIdx' = queryIdx + 1]_vars

\* an add query was answered, an unknown mode followed, and every recipe
\* is still kept
C19_Witness ==
    /\ pc = "getRecipe"
    /\ currentAssignment.queries = <<[params |-> "all", mode |-> "add"],
                                     [params |-> "Made", mode |-> "bogus"]>>
    /\ Cardinality(searches) = 1
    /\ recipeSlugs = Recipes

\* what a step may do about the snapshot
SnapshotStep ==
    /\ (PastFetches /\ PastFetches') => UNCHANGED taxonomy
    /\ (pc = "getCategories" /\ pc' = "getTags"
            /\ "categories" \notin failedFetches')
          => Range(categories') = storeCategories
    /\ (pc = "getTags" /\ pc' # "getTags" /\ "tags" \notin failedFetches')
          => Range(tags') = storeTags

\* C20: a cycle fetches the categories once and the tags once before its
\* first assignment; what it fetched is what the store knew at the fetch;
\* the snapshot does not change while the assignments are processed and
\* every assignment that runs has all its names in it; an assignment that
\* was skipped in the cycle before runs in this one when the new snapshot
\* has its names.
C20_OneSnapshotPerCycle ==
    /\ [](PastFetches => fetches = [categories |-> 1, tags |-> 1])
    /\ [](pc \in {"wait", "getCategories"} => fetches = NoFetches)
    /\ [](\A i \in ran : AllNamesKnown(i))
    /\ [](( /\ pc = "endCycle"
            /\ failedFetches = {}
            /\ prev.skipped
            /\ AllNamesKnown(watch.a)) => watch.a \in ran)
    /\ [][SnapshotStep]_vars

\* the first assignment was skipped in the cycle before for a name the
\* store did not know, and has run in this cycle
C20_Witness ==
    /\ pc = "endCycle"
    /\ watch.a = 1
    /\ prev.skipped
    /\ 1 \in ran

\* C23: at the select the armed wait time is at least 0 and at most
\* max(repeatTime, 0); before the first cycle it is 0 and nothing has been
\* waited, so that the timer case is ready at once.
C23_WaitWithinInterval ==
    /\ pc = "wait" =>
          /\ nextWaitTime >= 0
          /\ nextWaitTime <= Max(repeatTime, 0)
    /\ (pc = "wait" /\ elapsed = 0 - 1) =>
          /\ nextWaitTime = 0
          /\ waited >= nextWaitTime

\* a cycle took longer than a positive repeat interval, and the wait armed
\* after it is zero
C23_Witness ==
    /\ pc = "wait"
    /\ repeatTime > 0
    /\ elapsed > repeatTime
    /\ nextWaitTime = 0

\* what a step may do when the configuration holds no assignment
EmptyStep ==
    Len(assignments) = 0 =>
        UNCHANGED <<store, calls, fetches, failedFetches, running, elapsed>>

\* C28: for a configuration without assignments launchAssignmentLoop
\* returns (with the nil handle), no goroutine exists before or after, no
\* cycle ever starts and no organiser fetch, search, recipe fetch or write
\* is ever issued.
C28_EmptyConfigurationIdle ==
    /\ [](Len(assignments) = 0 =>
            /\ pc \in {"unstarted", "absent"}
            /\ (host # "init" => (pc = "absent" /\ quit = "nil"))
            /\ running = 0
            /\ calls = {}
            /\ fetches = NoFetches
            /\ failedFetches = {})
    /\ [][EmptyStep]_vars

\* launchAssignmentLoop has returned for the empty configuration
C28_Witness ==
    /\ Len(assignments) = 0
    /\ host = "started"
    /\ pc = "absent"

\* what a step may do about the order of the assignments and the searches
OrderStep ==
    /\ assignmentIdx' # assignmentIdx =>
          \/ /\ pc = "assignment"
             /\ assignmentIdx' = assignmentIdx + 1
             /\ remaining = {}
             /\ recipe = NoRecipe
          \/ /\ pc \in {"getTags", "endCycle"}
             /\ assignmentIdx' = 0
    /\ (pc = "query" /\ calls' # calls) =>
          \E c \in calls' \ calls :
              /\ c.op = "getSlugs"
              /\ c.k = queryIdx
              /\ c.matched = Matches(currentAssignment.queries[queryIdx].params)

\* C27: within a cycle the assignments are taken one after another in
\* declared order; the goroutine moves to the next assignment only when no
\* recipe of the current one is left to fetch or write; every call belongs
\* to the assignment being processed, and a search returns what the store
\* holds when it is issued, the writes of the earlier assignments included.
C27_AssignmentsInOrder ==
    /\ [](\A j \in ran : j <= assignmentIdx)
    /\ []((pc \in {"query", "getRecipe", "setOrganisers"} \/ calls # {})
            => assignmentIdx \in ran)
    /\ [](pc \in {"query", "getRecipe", "setOrganisers"} =>
            \A j \in 1..(assignmentIdx - 1) : AllNamesKnown(j) => j \in ran)
    /\ [][OrderStep]_vars

\* in the first cycle the search of the second assignment has matched
\* every recipe: the first assignment has put them all in category Made
C27_Witness ==
    /\ ~prev.seen
    /\ assignmentIdx = Len(assignments)
    /\ pc = "getRecipe"
    /\ \E c \in searches : c.ok /\ c.matched = Recipes

\* the names assignment a mentions for categories, and for tags
namedCategories(a) == Range(a.categories.set) \cup Range(a.categories.unset)
namedTags(a) == Range(a.tags.set) \cup Range(a.tags.unset)

\* the terms of a fetched recipe, as decoded, whose names are not in named
untouched(names, named) == {decodeOrganiser(n) : n \in names \ named}

\* what a step may do to the store
FrameStep ==
    /\ UNCHANGED <<storeCategories, storeTags>>
    /\ \A r \in Recipes :
          \/ recipeCategories'[r] = recipeCategories[r]
                /\ recipeTags'[r] = recipeTags[r]
          \/ /\ pc = "setOrganisers"
             /\ r = recipe.Slug
             /\ recipeCategories'[r] \ namedCategories(currentAssignment)
                  = recipeCategories[r] \ namedCategories(currentAssignment)
             /\ recipeTags'[r] \ namedTags(currentAssignment)
                  = recipeTags[r] \ namedTags(currentAssignment)

\* C25: the recipe about to be written carries the terms named in neither
\* the set nor the unset list exactly as they were fetched, a successful
\* write changes no other recipe and none of those terms, and every recipe
\* fetch and write of a pass is for a recipe of the working set (the slugs
\* whose last matching answered query was an add).
C25_UpdaterFrame ==
    /\ [](pc = "setOrganisers" =>
            /\ {t \in recipe.Categories :
                    t.Name \notin namedCategories(currentAssignment)}
                 = untouched(recipeCategories[recipe.Slug],
                             namedCategories(currentAssignment))
            /\ {t \in recipe.Tags : t.Name \notin namedTags(currentAssignment)}
                 = untouched(recipeTags[recipe.Slug],
                             namedTags(currentAssignment))
            /\ stillMatches(recipe.Slug))
    /\ [](\A c \in calls :
            c.op \in {"getRecipe", "setOrganisers"} => stillMatches(c.k))
    /\ [][FrameStep]_vars

\* the pass of the assignment that names no category has ended: a recipe of
\* category Made was written and is still in it, and another recipe was
\* outside the working set and has had no call
C25_Witness ==
    /\ PassDone
    /\ namedCategories(currentAssignment) = {}
    /\ \E r, q \in Recipes :
          /\ \E c \in writeOf(r) : c.ok
          /\ "Made" \in recipeCategories[r]
          /\ q \notin recipeSlugs
          /\ fetchOf(q) = {}
          /\ writeOf(q) = {}

\* the names of the terms of a recipe's slice that named does not hold
keptNames(terms, named) == {t.Name : t \in terms} \ named

\* another client has changed, since the fetch, whether the recipe awaiting
\* its write is in a category that the assignment does not name
ChangedSinceFetch ==
    /\ pc = "setOrganisers"
    /\ recipeCategories[recipe.Slug] \ namedCategories(currentAssignment)
          # keptNames(recipe.Categories, namedCategories(currentAssignment))

\* C26: when another client has changed a recipe's categories between the
\* fetch of the recipe and its write, the change is still in the store
\* after the write.
C26_NoLostUpdate ==
    [][(ChangedSinceFetch /\ pc' # "setOrganisers")
          => recipeCategories'[recipe.Slug] \ namedCategories(currentAssignment)
               = recipeCategories[recipe.Slug]
                    \ namedCategories(currentAssignment)]_vars

\* C24: in undisturbed operation there is a cycle after which no cycle
\* issues a write any more.
C24_Quiescence == <>[](pc # "setOrganisers")

\* every item of the pages 1..n, in order, with the kind filled in
allItems(n, kind) == [i \in 1..n |-> [item |-> i, kind |-> kind]]

\* what a step of getOrganisers may do about failing
FailStep ==
    (paging.pc = "loop" /\ paging'.err # "none") =>
        /\ paging'.pc = "returned"
        /\ paging'.requested = Append(paging.requested, paging.page)
        /\ paging'.result = <<>>

\* C21: getOrganisers rejects a kind other than categories and tags with
\* an error and without a request; a page request that fails, is answered
\* with another status than 200 or cannot be decoded ends the call at once
\* with an error and no term; when every request succeeds the result holds
\* the terms of the pages listed, each with its kind, and these are all the
\* terms of the store when the collection did not change meanwhile.
C21_OrganisersAllOrNothing ==
    /\ [](paging.err # "none" => paging.pc = "returned")
    /\ []((paging.pc = "returned" /\ paging.fn = "getOrganisers") =>
            /\ (paging.err = "kind") <=> ~kindAccepted(paging.kind)
            /\ paging.err = "kind" => paging.requested = <<>>
            /\ paging.err # "none" => paging.result = <<>>
            /\ paging.err = "none" =>
                  /\ paging.result = withKind(paging.slugs, paging.kind)
                  /\ resizes = 0 =>
                        paging.result = allItems(storePages, paging.kind))
    /\ [][FailStep]_vars

\* getOrganisers had collected the terms of a page when the request for
\* the next page was answered with a status other than 200: it returned
\* the error and no term
C21_Witness ==
    /\ paging.pc = "returned"
    /\ paging.fn = "getOrganisers"
    /\ paging.err = "status"
    /\ paging.slugs # <<>>
    /\ paging.result = <<>>

\* what a turn of the loop may do
PagingStep ==
    /\ (paging.pc = "loop" /\ paging'.pc = "loop" /\ paging' # paging) =>
          /\ paging'.lastPage = storePages
          /\ paging'.page = paging.page + 1
          /\ paging.page < paging'.lastPage
    /\ (paging.pc = "loop" /\ paging'.pc = "returned"
            /\ paging'.err = "none") =>
          /\ paging'.lastPage = storePages
          /\ paging.page >= paging'.lastPage
    /\ paging.pc = "returned" => paging' = paging

\* C30: getSlugs and getOrganisers request the pages 1, 2, 3, ... in
\* ascending order, page 1 in every call that passes the kind check and
\* whatever the number of pages of the store is; after every response the
\* loop goes on exactly when the page just requested is below the number
\* of pages that response reported; and the call returns.
C30_Pagination ==
    /\ [](paging.pc \in {"loop", "returned"} =>
            paging.requested = [i \in 1..Len(paging.requested) |-> i])
    /\ [](paging.pc = "loop" => Len(paging.requested) = paging.page - 1)
    /\ []((paging.pc = "returned" /\ paging.err # "kind") =>
            Len(paging.requested) >= 1)
    /\ []((paging.pc = "returned" /\ paging.err = "none") =>
            Len(paging.requested) >= paging.lastPage)
    /\ [][PagingStep]_vars
    /\ <>(paging.pc = "returned")

\* the store has more pages than the first guess of lastPage, and the call
\* has listed them all
C30_Witness ==
    /\ paging.pc = "returned"
    /\ paging.err = "none"
    /\ storePages > InitialLastPage
    /\ resizes = 0
    /\ Len(paging.requested) = storePages
    /\ Len(paging.result) = storePages

\* the goroutines of getRecipes that are inside getRecipe
InFlight ==
    {<<q, idx>> \in Requesters \X (1..MaxSlugs) :
        idx \in DOMAIN workers[q] /\ workers[q][idx].pc = "getRecipe"}

\* the goroutines that have their place in the limiter
Holding ==
    {<<q, idx>> \in Requesters \X (1..MaxSlugs) :
        idx \in DOMAIN workers[q] /\ workers[q][idx].pc \in {"getRecipe", "done"}}

\* C22: with a retrieval limit of N > 0, at most N goroutines of getRecipes
\* are inside getRecipe at any moment, over all requests being served; the
\* limiter holds one value for each goroutine that has taken its place and
\* not yet given it back, and never more than N.
C22_RetrievalLimit ==
    limiter.cap > 0 =>
        /\ Cardinality(InFlight) <= limiter.cap
        /\ limiter.held = Cardinality(Holding)
        /\ limiter.held <= limiter.cap

\* the limit is reached by a goroutine of one request while a goroutine of
\* another request waits for a place
C22_Witness ==
    /\ limiter.cap > 0
    /\ Cardinality(InFlight) = limiter.cap
    /\ \E q, o \in Requesters :
          /\ q # o
          /\ \E i \in DOMAIN workers[q] : workers[q][i].pc = "getRecipe"
          /\ \E i \in DOMAIN workers[o] : workers[o][i].pc = "start"

\* the call of request q has returned after its search succeeded
Retrieved(q) == requests[q].pc = "returned" /\ requests[q].err # "slugs"

\* every call has returned and every goroutine has ended
AllOver ==
    \A q \in Requesters :
        /\ requests[q].pc = "returned"
        /\ \A i \in DOMAIN workers[q] : workers[q][i].pc = "exit"

\* C29: whatever the numbers of slugs and the capacity of the limiter
\* (none included), every call of getRecipes returns and every goroutine
\* ends, with every place in the limiter given back; a call returns only
\* when each of its goroutines is past its retrieval; slot i of the result
\* holds the recipe of slug i when that retrieval succeeded and the zero
\* recipe otherwise; the error is non-nil exactly when a retrieval failed.
C29_RetrievalTerminates ==
    /\ <>AllOver
    /\ [](AllOver => limiter.held = 0)
    /\ [](\A q \in Requesters : Retrieved(q) =>
            /\ DOMAIN workers[q] = DOMAIN requests[q].slugs
            /\ Len(requests[q].slugs) = requests[q].matches
            /\ \A i \in DOMAIN workers[q] :
                  /\ workers[q][i].pc \in {"done", "exit"}
                  /\ requests[q].recipes[i] =
                        IF workers[q][i].err THEN 0 ELSE requests[q].slugs[i]
            /\ (requests[q].err # "none")
                  <=> \E i \in DOMAIN workers[q] : workers[q][i].err)

\* more slugs than the limiter has places: a call has returned with one
\* retrieval failed and one succeeded, and a goroutine still holds a place
C29_Witness ==
    /\ limiter.cap > 0
    /\ \E q \in Requesters :
          /\ Retrieved(q)
          /\ Len(requests[q].slugs) > limiter.cap
          /\ requests[q].err = "joined"
          /\ \E i \in DOMAIN workers[q] : ~workers[q][i].err
          /\ \E i \in DOMAIN workers[q] : workers[q][i].pc = "done"

====
